---- MODULE Spec2Model ----
(***************************************************************************)
(* SRP-6a client library (knokbak/srp-auth): the integer codec of          *)
(* util/math, the hash pipeline of util/hash, ClientSetup,                 *)
(* ClientAuthenticate and ServerSetup, as a state machine over one         *)
(* instance of each class plus an honest peer that answers (I, A).         *)
(*                                                                         *)
(* Representation.  A Uint8Array is a sequence of 0..255.  A JavaScript    *)
(* string of hexadecimal digits is a sequence of digit values 0..15, with  *)
(* Minus standing for the '-' that BigInt.prototype.toString prints.  An   *)
(* optional field (a?: bigint) is <<>> while undefined and <<value>> once  *)
(* assigned.  A username or password is a sequence of code points.         *)
(***************************************************************************)
EXTENDS Integers, Sequences, FiniteSets, TLC

(* ------------------------------ bounds -------------------------------- *)

\* entropy: random(256) returns a value in 0..MaxSecret
MaxSecret == 2
\* the honest peer's secret exponent b is drawn from 1..MaxPeerSecret
MaxPeerSecret == 1
\* calls made on the ClientAuthenticate instance
MaxCalls == 4
\* the integers handed to the functions of util/math are 0..MaxInteger
MaxInteger == 700
\* powMod is called with base in 0..MaxBase, exp in 0..MaxExponent and
\* p in 0..MaxModulus
MaxBase == 6
MaxExponent == 5
MaxModulus == 7

(* ------------------------- JavaScript values -------------------------- *)

Minus == 16

Undefined == <<>>

Defined(value) == <<value>>

\* !field for a field of type bigint | undefined: undefined and 0n are falsy
Falsy(field) == field = Undefined \/ field[1] = 0

\* !field for a field of type Uint8Array | undefined: every object is truthy
FalsyObject(field) == field = Undefined

Abs(x) == IF x >= 0 THEN x ELSE -x

\* x * y % p on BigInts (exact product, then remainder), computed without
\* leaving the 32-bit range: |x * y| % p = ((|x| % p) * (|y| % p)) % p and
\* the sign is the sign of the product
MulRem(x, y, p) ==
    LET m == ((Abs(x) % p) * (Abs(y) % p)) % p
    IN  IF (x < 0) = (y < 0) THEN m ELSE -m

\* storing a number into a Uint8Array element wraps it into 0..255
ToUint8(x) == x % 256

RECURSIVE BitXor(_, _)
\* HN[i] ^ Hg[i] on bytes
BitXor(x, y) ==
    IF x = 0 /\ y = 0 THEN 0
    ELSE (((x % 2) + (y % 2)) % 2) + 2 * BitXor(x \div 2, y \div 2)

(* ------------------------------ util/math ----------------------------- *)

\* arr[i].toString(16).padStart(2, '0')
ByteHex(b) == <<b \div 16, b % 16>>

RECURSIVE toHex(_)
\* toHex on a Uint8Array
toHex(arr) ==
    IF arr = <<>> THEN <<>> ELSE ByteHex(Head(arr)) \o toHex(Tail(arr))

RECURSIVE DigitsValue(_, _)
\* the value of a string of hexadecimal digits, most significant first
DigitsValue(hex, acc) ==
    IF hex = <<>> THEN acc ELSE DigitsValue(Tail(hex), 16 * acc + Head(hex))

\* BigInt('0x' + hex) throws a SyntaxError when no digit follows the prefix
ParseThrows(hex) == hex = <<>>

\* BigInt('0x' + hex)
ParseHex(hex) == DigitsValue(hex, 0)

\* toBigInt throws on the empty array: its hex string is empty
toBigIntThrows(arr) == ParseThrows(toHex(arr))

toBigInt(arr) == ParseHex(toHex(arr))

RECURSIVE NatDigits(_)
\* n.toString(16) for n >= 0
NatDigits(n) ==
    IF n < 16 THEN <<n>> ELSE Append(NatDigits(n \div 16), (n % 16))

\* n.toString(16): a negative BigInt prints '-' and then its magnitude
toString16(n) == IF n < 0 THEN <<Minus>> \o NatDigits(-n) ELSE NatDigits(n)

\* parseInt(slice, 16) for a slice of one or two characters of toString16;
\* a lone '-' is NaN, which a Uint8Array stores as 0
parseInt16(slice) ==
    IF Head(slice) = Minus
    THEN (IF Len(slice) = 1 THEN 0 ELSE -slice[2])
    ELSE DigitsValue(slice, 0)

RECURSIVE Slices(_)
\* the loop of toUint8Array: hex.slice(i, i + 2) for i = 0, 2, 4, ...
Slices(hex) ==
    IF hex = <<>> THEN <<>>
    ELSE IF Len(hex) = 1 THEN <<ToUint8(parseInt16(hex))>>
    ELSE <<ToUint8(parseInt16(SubSeq(hex, 1, 2)))>>
         \o Slices(SubSeq(hex, 3, Len(hex)))

\* toUint8Array on a bigint
toUint8Array(n) == Slices(toString16(n))

\* toUint8Array on a string of hexadecimal digits
toUint8ArrayOfString(hex) == toUint8Array(ParseHex(hex))

\* toHex on a bigint
toHexOfBigInt(n) == toHex(toUint8Array(n))

RECURSIVE powModLoop(_, _, _, _)
powModLoop(result, base, exp, p) ==
    IF exp = 0 THEN result
    ELSE powModLoop(IF exp % 2 = 1 THEN MulRem(result, base, p) ELSE result,
                    MulRem(base, base, p), exp \div 2, p)

powMod(base, exp, p) == powModLoop(1, base, exp, p)

\* x % 2n on BigInts: the remainder has the sign of x
RemTwo(x) == IF x >= 0 THEN x % 2 ELSE -((-x) % 2)

\* a shift that leaves exp as it is
ShiftRightNone(exp) == exp

\* exp >>= 1n: the arithmetic shift rounds towards minus infinity
ShiftRight(exp) == exp \div 2

\* one iteration of the while loop of powMod on (result, base, exp)
powModIteration(result, base, exp, p) ==
    <<IF RemTwo(exp) = 1 THEN MulRem(result, base, p) ELSE result,
      MulRem(base, base, p), ShiftRight(exp)>>

\* BigInt % 0n throws a RangeError; the loop divides in its first iteration
powModThrows(base, exp, p) == exp # 0 /\ p = 0

\* a loop that stops after the byte at index i
doesMatchFromOneByte(x, y, i) == i > Len(x) \/ x[i] = y[i]

RECURSIVE doesMatchFrom(_, _, _)
doesMatchFrom(x, y, i) ==
    IF i > Len(x) THEN TRUE
    ELSE IF x[i] # y[i] THEN FALSE
    ELSE doesMatchFrom(x, y, i + 1)

doesMatch(x, y) == IF Len(x) # Len(y) THEN FALSE ELSE doesMatchFrom(x, y, 1)

\* toString on a Uint8Array: TextDecoder, UTF-8, code points below 0x800
RECURSIVE TextDecode(_)
TextDecode(bytes) ==
    IF bytes = <<>> THEN <<>>
    ELSE IF Head(bytes) < 128 THEN <<Head(bytes)>> \o TextDecode(Tail(bytes))
    ELSE <<(Head(bytes) - 192) * 64 + (bytes[2] - 128)>>
         \o TextDecode(SubSeq(bytes, 3, Len(bytes)))

(* ------------------------------ util/hash ----------------------------- *)

\* new TextEncoder().encode(str): UTF-8, code points below 0x800
RECURSIVE TextEncode(_)
TextEncode(str) ==
    IF str = <<>> THEN <<>>
    ELSE (IF Head(str) < 128 THEN <<Head(str)>>
          ELSE <<192 + (Head(str) \div 64), 128 + (Head(str) % 64)>>)
         \o TextEncode(Tail(str))

Algorithms ==
    {"SHA-256", "SHA-384", "SHA-512", "SHA3-256", "SHA3-384", "SHA3-512"}

\* the initial chaining value that tells the digest functions apart
AlgorithmSeed(algorithm) ==
    CASE algorithm = "SHA-256" -> 17
      [] algorithm = "SHA-384" -> 29
      [] algorithm = "SHA-512" -> 43
      [] algorithm = "SHA3-256" -> 59
      [] algorithm = "SHA3-384" -> 71
      [] algorithm = "SHA3-512" -> 97

RECURSIVE Absorb(_, _)
Absorb(h, buffer) ==
    IF buffer = <<>> THEN h
    ELSE Absorb((h * 5 + Head(buffer) + 1) % 256, Tail(buffer))

\* hasher.update(buffer); hasher.digest('binary').  The digest functions of
\* hash-wasm are an external capability: a deterministic, order- and
\* length-sensitive function of the buffer with a digest of one byte stands
\* for them.
hashBuffer(algorithm, buffer) == <<Absorb(AlgorithmSeed(algorithm), buffer)>>

RECURSIVE Concat(_)
\* arr.set(data[i], offset) for every input in order
Concat(data) == IF data = <<>> THEN <<>> ELSE Head(data) \o Concat(Tail(data))

\* an undefined field among the inputs: toUint8Array(undefined) and
\* data.reduce(... curr.length ...) throw a TypeError
hashThrows(fields) == \E i \in 1..Len(fields) : fields[i] = Undefined

\* hash on inputs already encoded to Uint8Arrays, for a supported algorithm
hash(algorithm, input) == hashBuffer(algorithm, Concat(input))

\* an input of hash(): a string or a Uint8Array
StringInput(str) == [string |-> TRUE, v |-> str]

BufferInput(arr) == [string |-> FALSE, v |-> arr]

\* convert all strings to Uint8Arrays
EncodeInputs(input) ==
    [i \in 1..Len(input) |->
        IF input[i].string THEN TextEncode(input[i].v) ELSE input[i].v]

\* a switch that has no case for the SHA-3 family
hashRejectsSHA3(algorithm) ==
    algorithm \notin {"SHA-256", "SHA-384", "SHA-512"}

\* the default branch of the switch on the algorithm
hashRejects(algorithm) == algorithm \notin Algorithms

\* hash(algorithm, input) as a call: its digest or the error it throws
hashCall(algorithm, input) ==
    IF hashRejects(algorithm)
    THEN [inst |-> <<>>, name |-> "SRPError",
          message |-> "Invalid algorithm", value |-> <<>>]
    ELSE [inst |-> <<>>, name |-> "none", message |-> "",
          value |-> <<hash(algorithm, EncodeInputs(input))>>]

(* -------------------------- configuration ----------------------------- *)

\* config.group: the safe prime 0xb477 and a generator
GroupN == 46199

GroupG == 19

\* config.algorithm
Algorithm == "SHA-256"

\* config.username ("al") and config.password ("pw")
Username == <<97, 108>>

Password == <<112, 119>>

\* ':' as hash() encodes it
Colon == TextEncode(<<58>>)

(* --------------------------- client/setup ----------------------------- *)

\* the instance new ClientSetup(config) builds from a supplied salt
ClientSetupNew(username, password, salt) ==
    [I |-> TextEncode(username), p |-> TextEncode(password), s |-> salt,
     x |-> Undefined, v |-> Undefined]

\* computeX made to depend on what an earlier init() left in the instance
setupComputeXOfEarlierRun(inst) ==
    IF inst.x = Undefined
    THEN toBigInt(hash(Algorithm,
                       <<inst.s, hash(Algorithm, <<inst.I, Colon, inst.p>>)>>))
    ELSE (inst.x[1] + 1) % 256

\* ClientSetup.computeX
setupComputeX(inst) ==
    LET identity == hash(Algorithm, <<inst.I, Colon, inst.p>>)
        x == hash(Algorithm, <<inst.s, identity>>)
    IN  toBigInt(x)

\* ClientSetup.computeV throws when !this.x
setupComputeVThrows(inst) == Falsy(inst.x)

\* ClientSetup.computeV
setupComputeV(inst) == powMod(GroupG, inst.x[1], GroupN)

Throw(inst, name, message) ==
    [inst |-> inst, name |-> name, message |-> message, value |-> <<>>]

Return(inst, value) ==
    [inst |-> inst, name |-> "none", message |-> "", value |-> <<value>>]

\* an init() that draws fresh entropy for the salt at every call
setupInitFreshSalt(inst) ==
    LET fresh == [inst EXCEPT
                     !.s = [i \in 1..Len(inst.s) |-> (inst.s[i] + 1) % 256]]
        i1 == [fresh EXCEPT !.x = Defined(setupComputeX(fresh))]
    IN  IF setupComputeVThrows(i1)
        THEN Throw(i1, "SRPError", "X has not been computed yet")
        ELSE LET i2 == [i1 EXCEPT !.v = Defined(setupComputeV(i1))]
             IN  Return(i2, [I |-> TextDecode(i2.I),
                             raw |-> [v |-> toUint8Array(i2.v[1]), s |-> i2.s],
                             encoded |-> [v |-> toHex(toUint8Array(i2.v[1])),
                                          s |-> toHex(i2.s)]])

\* ClientSetup.init
setupInit(inst) ==
    LET i1 == [inst EXCEPT !.x = Defined(setupComputeX(inst))]
    IN  IF setupComputeVThrows(i1)
        THEN Throw(i1, "SRPError", "X has not been computed yet")
        ELSE LET i2 == [i1 EXCEPT !.v = Defined(setupComputeV(i1))]
                 uintV == toUint8Array(i2.v[1])
             IN  Return(i2, [I |-> TextDecode(i2.I),
                             raw |-> [v |-> toUint8Array(i2.v[1]), s |-> i2.s],
                             encoded |-> [v |-> toHex(uintV),
                                          s |-> toHex(i2.s)]])

(* ------------------------ client/authenticate ------------------------- *)

\* a protocol input of type string | Uint8Array
Bytes(arr) == [hex |-> FALSE, v |-> arr]

HexString(str) == [hex |-> TRUE, v |-> str]

\* if (typeof X === 'string') X = toUint8Array(X) throws on the empty string
ToBytesThrows(input) == input.hex /\ ParseThrows(input.v)

ToBytes(input) == IF input.hex THEN toUint8ArrayOfString(input.v) ELSE input.v

\* the fields of a ClientAuthenticate instance after its constructor
ClientAuthenticateNew ==
    [a |-> Undefined, A |-> Undefined, B |-> Undefined, u |-> Undefined,
     s |-> Undefined, S |-> Undefined, K |-> Undefined, M1 |-> Undefined]

\* ClientAuthenticate.computeA with a = toBigInt(random(256))
computeA(a) == powMod(GroupG, a, GroupN)

\* ClientAuthenticate.init, the entropy source returning a
init(inst, a) ==
    LET A == computeA(a)
        i1 == [inst EXCEPT !.a = Defined(a), !.A = Defined(A)]
    IN  Return(i1, [I |-> TextDecode(TextEncode(Username)),
                    raw |-> [A |-> toUint8Array(A)],
                    encoded |-> [A |-> toHex(toUint8Array(A))]])

\* ClientAuthenticate.computeU
computeU(inst) ==
    toBigInt(hash(Algorithm,
                  <<toUint8Array(inst.A[1]), toUint8Array(inst.B[1])>>))

\* ClientAuthenticate.computeK
computeK ==
    toBigInt(hash(Algorithm, <<toUint8Array(GroupN), toUint8Array(GroupG)>>))

\* ClientAuthenticate.computeX
computeX(inst) ==
    LET identity ==
            hash(Algorithm, <<TextEncode(Username), Colon, TextEncode(Password)>>)
        x == hash(Algorithm, <<toUint8Array(inst.s[1]), identity>>)
    IN  toBigInt(x)

\* the guard of computeU
computeUThrows(inst) == Falsy(inst.A) \/ Falsy(inst.B)

\* the guard of computeS
computeSThrows(inst) == Falsy(inst.a) \/ Falsy(inst.B) \/ Falsy(inst.u)

\* the guard of computeX
computeXThrows(inst) == Falsy(inst.s)

\* ClientAuthenticate.computeS, past its guards
computeS(inst) ==
    LET k == computeK
        x == computeX(inst)
    IN  powMod(inst.B[1] - k * powMod(GroupG, x, GroupN),
               inst.a[1] + inst.u[1] * x, GroupN)

\* the powMod call computeS makes: base, exponent and modulus
computeSCall(inst) ==
    LET k == computeK
        x == computeX(inst)
    IN  [caller |-> "computeS",
         base |-> inst.B[1] - k * powMod(GroupG, x, GroupN),
         exp |-> inst.a[1] + inst.u[1] * x,
         p |-> GroupN]

\* exchange without its guard
exchangeThrowsNever(inst) == FALSE

\* the guard of exchange
exchangeThrows(inst) == Falsy(inst.A)

\* if (this.B === 0n) throw
exchangeRejectsB(B) == B = 0

\* if (this.u === 0n) throw
exchangeRejectsU(u) == u = 0

\* the error exchange throws for a rejected B
InvalidB(inst) ==
    Throw(inst, "SRPError", "Invalid server-supplied public key: B = 0")

\* the error exchange throws for a rejected u
InvalidU(inst) == Throw(inst, "SRPError", "Invalid keys: u = 0")

\* exchange from this.u = await this.computeU() on
exchangeDerive(inst) ==
    IF computeUThrows(inst)
    THEN Throw(inst, "SRPError", "A and B must be set before computing u")
    ELSE
    LET i3 == [inst EXCEPT !.u = Defined(computeU(inst))]
    IN  IF exchangeRejectsU(i3.u[1]) THEN InvalidU(i3)
        ELSE IF computeSThrows(i3)
        THEN Throw(i3, "SRPError", "a, B, and u must be set before computing S")
        ELSE IF computeXThrows(i3)
        THEN Throw(i3, "SRPError", "s must be set before computing x")
        ELSE LET i4 == [i3 EXCEPT !.S = Defined(computeS(i3))]
                 K == hash(Algorithm, <<toUint8Array(i4.S[1])>>)
             IN  Return([i4 EXCEPT !.K = Defined(K)], <<>>)

\* ClientAuthenticate.exchange
exchange(inst, B, s) ==
    IF exchangeThrows(inst)
    THEN Throw(inst, "SRPError", "A must be set before exchanging B")
    ELSE IF ToBytesThrows(B) \/ toBigIntThrows(ToBytes(B))
    THEN Throw(inst, "SyntaxError", "Cannot convert 0x to a BigInt")
    ELSE LET i1 == [inst EXCEPT !.B = Defined(toBigInt(ToBytes(B)))]
         IN  IF ToBytesThrows(s) \/ toBigIntThrows(ToBytes(s))
             THEN Throw(i1, "SyntaxError", "Cannot convert 0x to a BigInt")
             ELSE LET i2 == [i1 EXCEPT !.s = Defined(toBigInt(ToBytes(s)))]
                  IN  IF exchangeRejectsB(i2.B[1]) THEN InvalidB(i2)
                      ELSE exchangeDerive(i2)

\* the guard of authenticate without its test of K
authenticateThrowsIgnoringK(inst) ==
    Falsy(inst.s) \/ Falsy(inst.A) \/ Falsy(inst.B)

\* the guard of authenticate
authenticateThrows(inst) ==
    Falsy(inst.s) \/ Falsy(inst.A) \/ Falsy(inst.B) \/ FalsyObject(inst.K)

RECURSIVE XorBytes(_, _)
\* HX[i] = HN[i] ^ Hg[i] for i < HN.length
XorBytes(HN, Hg) ==
    IF HN = <<>> THEN <<>>
    ELSE <<BitXor(Head(HN), Head(Hg))>> \o XorBytes(Tail(HN), Tail(Hg))

\* the M1 authenticate computes from the fields of the instance
computeM1(inst) ==
    LET N == toUint8Array(GroupN)
        g == toUint8Array(GroupG)
        s == toUint8Array(inst.s[1])
        A == toUint8Array(inst.A[1])
        B == toUint8Array(inst.B[1])
        HX == XorBytes(hash(Algorithm, <<N>>), hash(Algorithm, <<g>>))
    IN  hash(Algorithm, <<HX, TextEncode(Username), s, A, B, inst.K[1]>>)

\* ClientAuthenticate.authenticate
authenticate(inst) ==
    IF authenticateThrows(inst)
    THEN Throw(inst, "SRPError",
               "s, A, B, and K must be set before authenticating")
    ELSE IF hashThrows(<<inst.s, inst.A, inst.B, inst.K>>)
    THEN Throw(inst, "TypeError", "Cannot read properties of undefined")
    ELSE LET M1 == computeM1(inst)
         IN  Return([inst EXCEPT !.M1 = Defined(M1)],
                    [raw |-> [M1 |-> M1], encoded |-> [M1 |-> toHex(M1)]])

\* the guard of verifyServer without its test of M1
verifyServerThrowsIgnoringM1(inst) == Falsy(inst.A) \/ FalsyObject(inst.K)

\* the guard of verifyServer
verifyServerThrows(inst) ==
    Falsy(inst.A) \/ FalsyObject(inst.M1) \/ FalsyObject(inst.K)

\* expected = H(A, M1, K)
expectedM2(inst) ==
    hash(Algorithm, <<toUint8Array(inst.A[1]), inst.M1[1], inst.K[1]>>)

\* the condition under which verifyServer throws its security violation
verifyServerRejects(expected, M2) == doesMatch(expected, M2)

\* a verifyServer that discards K and M1 when it rejects M2
verifyServerForgetting(inst, M2) ==
    IF verifyServerThrows(inst)
    THEN Throw(inst, "SRPError",
               "A, M1, and K must be set before verifying the server")
    ELSE IF ToBytesThrows(M2)
    THEN Throw(inst, "SyntaxError", "Cannot convert 0x to a BigInt")
    ELSE IF verifyServerRejects(expectedM2(inst), ToBytes(M2))
    THEN Throw([inst EXCEPT !.K = Undefined, !.M1 = Undefined],
               "SRPSecurityViolation",
               "Server-supplied M2 does not match the expected value")
    ELSE Return(inst, <<>>)

\* ClientAuthenticate.verifyServer
verifyServer(inst, M2) ==
    IF verifyServerThrows(inst)
    THEN Throw(inst, "SRPError",
               "A, M1, and K must be set before verifying the server")
    ELSE IF hashThrows(<<inst.A, inst.M1, inst.K>>)
    THEN Throw(inst, "TypeError", "Cannot read properties of undefined")
    ELSE IF ToBytesThrows(M2)
    THEN Throw(inst, "SyntaxError", "Cannot convert 0x to a BigInt")
    ELSE IF verifyServerRejects(expectedM2(inst), ToBytes(M2))
    THEN Throw(inst, "SRPSecurityViolation",
               "Server-supplied M2 does not match the expected value")
    ELSE Return(inst, <<>>)

(* ---------------------------- server/setup ---------------------------- *)

\* the ServerSetup constructor throws when BigInt parses an empty string
ServerSetupNewThrows(config) ==
    \/ ToBytesThrows(config.s)
    \/ (IF config.v.hex THEN ParseThrows(config.v.v)
        ELSE toBigIntThrows(config.v.v))

\* the fields new ServerSetup(config) stores
ServerSetupNew(config) ==
    [I |-> config.I,
     s |-> ToBytes(config.s),
     v |-> IF config.v.hex THEN ParseHex(config.v.v) ELSE toBigInt(config.v.v)]

\* ServerSetup.getCredentials
getCredentials(inst) ==
    [username |-> inst.I, salt |-> toHex(inst.s),
     verifier |-> toHexOfBigInt(inst.v)]

\* verify without its test of v
verifyIgnoringV(inst) ==
    IF Len(inst.I) = 0 THEN Throw(inst, "SRPError", "I must not be empty")
    ELSE IF Len(inst.s) = 0 \/ toBigInt(inst.s) = 0
    THEN Throw(inst, "SRPSecurityViolation",
               "s must not be empty or equal zero")
    ELSE Return(inst, getCredentials(inst))

\* verify with its test of I moved behind the tests of s and v
verifyIdentityLast(inst) ==
    IF Len(inst.s) = 0 \/ toBigInt(inst.s) = 0
    THEN Throw(inst, "SRPSecurityViolation",
               "s must not be empty or equal zero")
    ELSE IF inst.v = 0
    THEN Throw(inst, "SRPSecurityViolation", "v must not be zero")
    ELSE IF Len(inst.I) = 0 THEN Throw(inst, "SRPError", "I must not be empty")
    ELSE Return(inst, getCredentials(inst))

\* ServerSetup.verify
verify(inst) ==
    IF Len(inst.I) = 0 THEN Throw(inst, "SRPError", "I must not be empty")
    ELSE IF Len(inst.s) = 0
    THEN Throw(inst, "SRPSecurityViolation",
               "s must not be empty or equal zero")
    ELSE IF toBigInt(inst.s) = 0
    THEN Throw(inst, "SRPSecurityViolation",
               "s must not be empty or equal zero")
    ELSE IF inst.v = 0
    THEN Throw(inst, "SRPSecurityViolation", "v must not be zero")
    ELSE Return(inst, getCredentials(inst))

(* ------------------------------ the peer ------------------------------ *)

RECURSIVE IntegerToBytes(_)
\* the minimal big-endian encoding of n >= 0, as the peer puts it on the wire
IntegerToBytes(n) ==
    IF n < 256 THEN <<n>> ELSE Append(IntegerToBytes(n \div 256), (n % 256))

\* B = (k*v + g^b) mod N
PeerPublic(b, v) == (computeK * v + powMod(GroupG, b, GroupN)) % GroupN

\* S = (A * v^u)^b mod N with u = H(A, B)
PeerSecret(A, B, v, b) ==
    LET u == toBigInt(hash(Algorithm, <<toUint8Array(A), toUint8Array(B)>>))
    IN  powMod((A * powMod(v, u, GroupN)) % GroupN, b, GroupN)

\* K = H(S)
PeerKey(A, B, v, b) ==
    hash(Algorithm, <<toUint8Array(PeerSecret(A, B, v, b))>>)

(* ------------------------------- inputs ------------------------------- *)

\* salts: plain, first byte below 0x10, leading zero byte, one byte, zero
Salts == {<<18, 52>>, <<1, 35>>, <<0, 18>>, <<7>>, <<0>>}

\* the salts Client Setup yields a verifier for
SetupSalts ==
    {salt \in Salts :
        setupInit(ClientSetupNew(Username, Password, salt)).name = "none"}

\* the verifier Client Setup computes for each of them
VerifierOf ==
    [salt \in SetupSalts |->
        setupInit(ClientSetupNew(Username, Password, salt)).inst.v[1]]

\* the salts random(bits) may return when no salt is supplied; with the last
\* one the digest of x is zero for "al" and "pw"
RandomSalts == {<<0, 0>>, <<9, 200>>, <<255, 255>>, <<9, 167>>}

\* config.username: "al", "", "é"
Usernames == {Username, <<>>, <<233>>}

\* config.password: "pw", "p"
Passwords == {Password, <<112>>}

\* the salts an attacker sends
ForgedSalts == {<<18, 52>>, <<0>>}

\* for every A the client can hold, the one-byte keys B with H(A, B) = 0
ZeroUKeys ==
    [A \in {computeA(a) : a \in 0..MaxSecret} |->
        {c \in 1..255 :
            computeU([ClientAuthenticateNew EXCEPT
                         !.A = Defined(A), !.B = Defined(c)]) = 0}]

\* public keys an attacker may send: 0, N, 2N, some residue, a hex string,
\* and a key that makes u zero for the A the client holds
ForgedB(inst) ==
    {Bytes(<<0>>), Bytes(IntegerToBytes(GroupN)),
     Bytes(IntegerToBytes(2 * GroupN)), Bytes(<<9, 41>>),
     HexString(<<10, 11, 12>>)}
    \cup (IF inst.A = Undefined THEN {}
          ELSE {Bytes(<<c>>) : c \in ZeroUKeys[inst.A[1]]})

\* server proofs an attacker may send
ForgedM2(inst) ==
    {Bytes(<<0>>), Bytes(<<1, 2>>), HexString(<<>>)}
    \cup (IF hashThrows(<<inst.A, inst.M1, inst.K>>) THEN {}
          ELSE {Bytes(expectedM2(inst)), HexString(toHex(expectedM2(inst)))})

\* the identities, salts and verifiers a ServerSetup may receive
ReceivedNames == {<<>>, Username}

ReceivedSalts ==
    {Bytes(<<>>), Bytes(<<0>>), Bytes(<<0, 0>>), Bytes(<<0, 18>>),
     Bytes(<<1, 35>>), Bytes(<<18, 52>>), HexString(<<>>),
     HexString(<<0, 0>>), HexString(<<0, 0, 1, 2>>),
     HexString(<<1, 2, 3, 4>>)}

ReceivedVerifiers ==
    {Bytes(<<>>), Bytes(<<0>>), Bytes(<<2, 31>>), Bytes(<<105, 223>>),
     HexString(<<>>), HexString(<<0>>), HexString(<<0, 0>>),
     HexString(<<0, 2, 1, 15>>), HexString(<<6, 9, 13, 15>>)}

\* the bytes the arrays handed to the functions of util/math are made of
ByteSamples == {0, 1, 15, 16, 35, 255}

\* those arrays: empty, one byte, two bytes, and two of three bytes
ByteArrays ==
    {<<>>, <<1, 35, 69>>, <<18, 52, 86>>}
    \cup {<<b>> : b \in ByteSamples}
    \cup {<<b, c>> : b \in ByteSamples, c \in ByteSamples}

\* the algorithm values and input lists handed to hash()
HashAlgorithms == Algorithms \cup {"MD5", "sha-256", ""}

HashInputs ==
    {<<>>, <<BufferInput(<<>>)>>, <<StringInput(<<58>>)>>,
     <<BufferInput(<<1, 2>>), StringInput(<<97>>)>>,
     <<StringInput(<<233>>), BufferInput(<<0>>)>>}

\* the instances on which an exchange with the honest peer reached computeS
ExchangedInstances ==
    {r.inst :
        r \in {rr \in {exchange(init(ClientAuthenticateNew, a).inst,
                                 Bytes(IntegerToBytes(
                                     PeerPublic(b, VerifierOf[salt]))),
                                 Bytes(salt)) :
                            a \in 0..MaxSecret, b \in 1..MaxPeerSecret,
                            salt \in SetupSalts} :
                  rr.name = "none"}}

\* the powMod calls of computeS, and calls of any other importer of util/math
PowModCalls ==
    {computeSCall(inst) : inst \in ExchangedInstances}
    \cup {[caller |-> "other", base |-> base, exp |-> exp, p |-> p] :
             base \in 0..MaxBase, exp \in (-2)..MaxExponent,
             p \in 0..MaxModulus}

(* --------------------------- the state machine ------------------------ *)

VARIABLES
    auth,      \* the fields of the ClientAuthenticate instance
    ret,       \* the last call on it: operation, arguments, outcome
    peer,      \* the honest peer's session, when it supplied the last exchange
    calls,     \* calls made on the instance
    setup,     \* the ClientSetup instance, once constructed
    setupRet,  \* the outcome of ClientSetup.init
    handed,    \* the config the transport handed to new ServerSetup
    server,    \* the ServerSetup instance, once constructed
    serverRet, \* the outcome of the last ServerSetup call
    arg,       \* the argument of a call on a function of util/math
    out        \* the outcome of that call

authVars == <<auth, ret, peer, calls>>

setupVars == <<setup, setupRet, handed, server, serverRet>>

mathVars == <<arg, out>>

vars ==
    <<auth, ret, peer, calls, setup, setupRet, handed, server, serverRet,
      arg, out>>

Outcome(op, args, r) ==
    [op |-> op, args |-> args, name |-> r.name, message |-> r.message,
     value |-> r.value]

NoCall == Outcome("new", <<>>, Return(<<>>, <<>>))

Init ==
    /\ auth = ClientAuthenticateNew
    /\ ret = NoCall
    /\ peer = Undefined
    /\ calls = 0
    /\ setup = Undefined
    /\ setupRet = NoCall
    /\ handed = Undefined
    /\ server = Undefined
    /\ serverRet = NoCall
    /\ arg = Undefined
    /\ out = NoCall

Call(op, args, r) ==
    /\ calls' = calls + 1
    /\ auth' = r.inst
    /\ ret' = Outcome(op, args, r)

\* await authenticate.init()
ClientInit ==
    /\ calls < MaxCalls
    /\ \E a \in 0..MaxSecret : Call("init", <<>>, init(auth, a))
    /\ UNCHANGED <<peer, setupVars, mathVars>>

\* the peer holding (s, v) answers (I, A) with (B, s); the client exchanges
ExchangeWithPeer ==
    /\ calls < MaxCalls
    /\ auth.A # Undefined
    /\ \E b \in 1..MaxPeerSecret, salt \in SetupSalts :
        LET v == VerifierOf[salt]
            B == PeerPublic(b, v)
            args == <<Bytes(IntegerToBytes(B)), Bytes(salt)>>
        IN  /\ Call("exchange", args, exchange(auth, args[1], args[2]))
            /\ peer' = Defined([b |-> b, s |-> salt, v |-> v, B |-> B])
    /\ UNCHANGED <<setupVars, mathVars>>

\* await authenticate.exchange(B, s) with values an attacker chose
ExchangeForged ==
    /\ calls < MaxCalls
    /\ \E B \in ForgedB(auth), salt \in ForgedSalts :
        Call("exchange", <<B, Bytes(salt)>>, exchange(auth, B, Bytes(salt)))
    /\ peer' = Undefined
    /\ UNCHANGED <<setupVars, mathVars>>

\* await authenticate.authenticate()
Authenticate ==
    /\ calls < MaxCalls
    /\ Call("authenticate", <<>>, authenticate(auth))
    /\ UNCHANGED <<peer, setupVars, mathVars>>

\* await authenticate.verifyServer(M2)
VerifyServer ==
    /\ calls < MaxCalls
    /\ \E M2 \in ForgedM2(auth) :
        Call("verifyServer", <<M2>>, verifyServer(auth, M2))
    /\ UNCHANGED <<peer, setupVars, mathVars>>

Next ==
    \/ ClientInit
    \/ ExchangeWithPeer
    \/ ExchangeForged
    \/ Authenticate
    \/ VerifyServer

Spec == Init /\ [][Next]_vars

\* new ClientSetup(config) with a supplied salt
SetupConstruct ==
    /\ setup = Undefined
    /\ \E username \in Usernames, password \in Passwords, salt \in Salts :
        setup' = Defined(ClientSetupNew(username, password, salt))
    /\ UNCHANGED <<setupRet, handed, server, serverRet, authVars, mathVars>>

\* new ClientSetup(config) without a salt: random(config.saltLength ?? 192)
SetupConstructRandom ==
    /\ setup = Undefined
    /\ \E username \in Usernames, password \in Passwords, salt \in RandomSalts :
        setup' = Defined(ClientSetupNew(username, password, salt))
    /\ UNCHANGED <<setupRet, handed, server, serverRet, authVars, mathVars>>

\* await setup.init()
SetupInit ==
    /\ setup # Undefined
    /\ LET r == setupInit(setup[1])
       IN  /\ setup' = Defined(r.inst)
           /\ setupRet' = Outcome("init", <<>>, r)
    /\ UNCHANGED <<handed, server, serverRet, authVars, mathVars>>

\* the transport delivers (I, s, v) of the setup result, raw or encoded, and
\* the server runs new ServerSetup(config)
ServerConstruct ==
    /\ setupRet.op = "init"
    /\ setupRet.name = "none"
    /\ server = Undefined
    /\ handed = Undefined
    /\ \E encodedS \in BOOLEAN, encodedV \in BOOLEAN :
        LET result == setupRet.value[1]
            config ==
                [I |-> result.I,
                 s |-> IF encodedS THEN HexString(result.encoded.s)
                       ELSE Bytes(result.raw.s),
                 v |-> IF encodedV THEN HexString(result.encoded.v)
                       ELSE Bytes(result.raw.v)]
        IN  /\ handed' = Defined(config)
            /\ IF ServerSetupNewThrows(config)
               THEN /\ server' = Undefined
                    /\ serverRet' =
                         Outcome("new", <<>>,
                                 Throw(<<>>, "SyntaxError",
                                       "Cannot convert 0x to a BigInt"))
               ELSE /\ server' = Defined(ServerSetupNew(config))
                    /\ serverRet' = NoCall
    /\ UNCHANGED <<setup, setupRet, authVars, mathVars>>

\* await server.verify()
ServerVerify ==
    /\ server # Undefined
    /\ serverRet' = Outcome("verify", <<>>, verify(server[1]))
    /\ UNCHANGED <<setup, setupRet, handed, server, authVars, mathVars>>

SetupNext ==
    \/ SetupConstruct
    \/ SetupConstructRandom
    \/ SetupInit
    \/ ServerConstruct
    \/ ServerVerify

SetupSpec == Init /\ [][SetupNext]_vars

\* new ServerSetup(config) on a triple received from anywhere
ServerReceive ==
    /\ server = Undefined
    /\ handed = Undefined
    /\ \E I \in ReceivedNames, s \in ReceivedSalts, v \in ReceivedVerifiers :
        LET config == [I |-> I, s |-> s, v |-> v]
        IN  /\ handed' = Defined(config)
            /\ IF ServerSetupNewThrows(config)
               THEN /\ server' = Undefined
                    /\ serverRet' =
                         Outcome("new", <<>>,
                                 Throw(<<>>, "SyntaxError",
                                       "Cannot convert 0x to a BigInt"))
               ELSE /\ server' = Defined(ServerSetupNew(config))
                    /\ serverRet' = NoCall
    /\ UNCHANGED <<setup, setupRet, authVars, mathVars>>

ServerNext ==
    \/ ServerReceive
    \/ ServerVerify

ServerSpec == Init /\ [][ServerNext]_vars

\* a caller of util/math holds a bigint or a Uint8Array
MathInit ==
    /\ auth = ClientAuthenticateNew
    /\ ret = NoCall
    /\ peer = Undefined
    /\ calls = 0
    /\ setup = Undefined
    /\ setupRet = NoCall
    /\ handed = Undefined
    /\ server = Undefined
    /\ serverRet = NoCall
    /\ out = NoCall
    /\ \/ \E n \in 0..MaxInteger : arg = [type |-> "bigint", v |-> n]
       \/ \E arr \in ByteArrays : arg = [type |-> "Uint8Array", v |-> arr]
       \/ \E base \in 0..MaxBase, exp \in 0..MaxExponent, p \in 0..MaxModulus :
            arg = [type |-> "powMod",
                   v |-> [base |-> base, exp |-> exp, p |-> p]]
       \/ \E a \in ByteArrays, b \in ByteArrays :
            arg = [type |-> "doesMatch", v |-> <<a, b>>]
       \/ \E algorithm \in HashAlgorithms, input \in HashInputs :
            arg = [type |-> "hash",
                   v |-> [algorithm |-> algorithm, input |-> input]]

\* toUint8Array(n) on the caller's bigint, or on the bigint toBigInt returned
MathToUint8Array ==
    /\ \/ arg.type = "bigint" /\ out.op = "new"
       \/ arg.type = "Uint8Array" /\ out.op = "toBigInt" /\ out.name = "none"
    /\ LET n == IF out.op = "new" THEN arg.v ELSE out.value[1]
       IN  out' = Outcome("toUint8Array", <<n>>,
                          Return(<<>>, toUint8Array(n)))
    /\ UNCHANGED <<arg, authVars, setupVars>>

\* toBigInt(arr) on the caller's array, or on the array toUint8Array returned
MathToBigInt ==
    /\ \/ arg.type = "Uint8Array" /\ out.op = "new"
       \/ arg.type = "bigint" /\ out.op = "toUint8Array"
    /\ LET arr == IF out.op = "new" THEN arg.v ELSE out.value[1]
       IN  out' = Outcome("toBigInt", <<arr>>,
                          IF toBigIntThrows(arr)
                          THEN Throw(<<>>, "SyntaxError",
                                     "Cannot convert 0x to a BigInt")
                          ELSE Return(<<>>, toBigInt(arr)))
    /\ UNCHANGED <<arg, authVars, setupVars>>

\* await hash(algorithm, input)
MathHash ==
    /\ arg.type = "hash"
    /\ out.op = "new"
    /\ out' = Outcome("hash", <<arg.v.algorithm, arg.v.input>>,
                      hashCall(arg.v.algorithm, arg.v.input))
    /\ UNCHANGED <<arg, authVars, setupVars>>

\* powMod(base, exp, p)
MathPowMod ==
    /\ arg.type = "powMod"
    /\ out.op = "new"
    /\ out' = Outcome("powMod", <<arg.v.base, arg.v.exp, arg.v.p>>,
                      IF powModThrows(arg.v.base, arg.v.exp, arg.v.p)
                      THEN Throw(<<>>, "RangeError", "Division by zero")
                      ELSE Return(<<>>,
                                  powMod(arg.v.base, arg.v.exp, arg.v.p)))
    /\ UNCHANGED <<arg, authVars, setupVars>>

\* doesMatch(a, b)
MathDoesMatch ==
    /\ arg.type = "doesMatch"
    /\ out.op = "new"
    /\ out' = Outcome("doesMatch", arg.v,
                      Return(<<>>, doesMatch(arg.v[1], arg.v[2])))
    /\ UNCHANGED <<arg, authVars, setupVars>>

MathNext ==
    \/ MathToUint8Array
    \/ MathToBigInt
    \/ MathPowMod
    \/ MathDoesMatch
    \/ MathHash

MathSpec == MathInit /\ [][MathNext]_vars

\* a caller is about to run powMod(base, exp, p)
PowModInit ==
    /\ auth = ClientAuthenticateNew
    /\ ret = NoCall
    /\ peer = Undefined
    /\ calls = 0
    /\ setup = Undefined
    /\ setupRet = NoCall
    /\ handed = Undefined
    /\ server = Undefined
    /\ serverRet = NoCall
    /\ out = NoCall
    /\ \E call \in PowModCalls : arg = [type |-> "powMod", v |-> call]

\* inside the loop nothing is returned or thrown yet
Running == [name |-> "none", message |-> "", value |-> <<>>]

\* let result = 1n
PowModEnter ==
    /\ out.op = "new"
    /\ out' = Outcome("while", <<1, arg.v.base, arg.v.exp>>, Running)
    /\ UNCHANGED <<arg, authVars, setupVars>>

\* while (exp !== 0n) { ... }: one iteration
PowModIterate ==
    /\ out.op = "while"
    /\ out.args[3] # 0
    /\ out' = IF arg.v.p = 0
              THEN Outcome("powMod", <<arg.v.base, arg.v.exp, arg.v.p>>,
                           Throw(<<>>, "RangeError", "Division by zero"))
              ELSE Outcome("while",
                           powModIteration(out.args[1], out.args[2],
                                           out.args[3], arg.v.p),
                           Running)
    /\ UNCHANGED <<arg, authVars, setupVars>>

\* return result
PowModReturn ==
    /\ out.op = "while"
    /\ out.args[3] = 0
    /\ out' = Outcome("powMod", <<arg.v.base, arg.v.exp, arg.v.p>>,
                      Return(<<>>, out.args[1]))
    /\ UNCHANGED <<arg, authVars, setupVars>>

PowModNext ==
    \/ PowModEnter
    \/ PowModIterate
    \/ PowModReturn

\* a call that has started runs on: the loop is not preempted for ever
PowModSpec == PowModInit /\ [][PowModNext]_vars /\ WF_vars(PowModNext)

(* ------------------------------- claims ------------------------------- *)

RECURSIVE HexDecode(_)
\* the bytes a lower-case two-characters-per-byte hex string stands for
HexDecode(str) ==
    IF Len(str) < 2 THEN <<>>
    ELSE <<16 * str[1] + str[2]>> \o HexDecode(SubSeq(str, 3, Len(str)))

\* the byte sequence a protocol input stands for
InputBytes(input) == IF input.hex THEN HexDecode(input.v) ELSE input.v

\* the integer a protocol input stands for
InputValue(input) ==
    IF input.hex THEN DigitsValue(input.v, 0)
    ELSE DigitsValue(toHex(input.v), 0)

\* C1: verifyServer(M2), called once A, M1 and K are set, fails with a
\* security violation when M2 differs from expected = H(A, M1, K) and
\* returns normally when M2 equals expected.
C1_VerifyServerAcceptsExpected ==
    (ret.op = "verifyServer" /\ ~verifyServerThrows(auth)
        /\ ~ToBytesThrows(ret.args[1]))
    => IF InputBytes(ret.args[1]) = expectedM2(auth)
       THEN ret.name = "none"
       ELSE ret.name = "SRPSecurityViolation"

\* C2: after init, exchange(B, s) fails with a security violation for every
\* supplied B congruent to zero modulo N, and derives no session key K.
C2_MultipleOfNRejected ==
    [][(ret'.op = "exchange" /\ ~exchangeThrows(auth)
            /\ InputValue(ret'.args[1]) % GroupN = 0)
        => (ret'.name = "SRPSecurityViolation" /\ auth'.K = auth.K)]_vars

\* C3: on an instance on which init() has not been called, exchange(B, s)
\* fails with a protocol error for every B and s and stores nothing.
C3_ExchangeBeforeInit ==
    [][(ret'.op = "exchange" /\ auth.a = Undefined)
        => (/\ ret'.name = "SRPError"
            /\ ret'.message = "A must be set before exchanging B"
            /\ auth' = ClientAuthenticateNew)]_vars

\* an exchange was refused on an instance that never ran init
C3_Witness ==
    /\ ret.op = "exchange"
    /\ ret.name = "SRPError"
    /\ auth = ClientAuthenticateNew
    /\ ret.args[1] = Bytes(<<9, 41>>)

\* C4: against a peer that holds the verifier Client Setup computed, sends
\* B = (k*v + g^b) mod N and derives S = (A * v^u)^b mod N, the client's
\* exchange, when it completes, holds K = H(S), and verifyServer(H(A, M1, K))
\* then succeeds.
C4_KeyAgreement ==
    /\ (ret.op = "exchange" /\ ret.name = "none" /\ peer # Undefined)
        => auth.K = Defined(PeerKey(auth.A[1], peer[1].B, peer[1].v,
                                    peer[1].b))
    /\ (ret.op = "verifyServer" /\ peer # Undefined
            /\ ~verifyServerThrows(auth)
            /\ ret.args[1] = Bytes(expectedM2(auth)))
        => ret.name = "none"

\* C5: every M1 authenticate() returns is H(H(N) XOR H(g), I, s, A, B, K) for
\* the K a successful exchange derives from the a, A, B and s now stored.
C5_NoStaleOperands ==
    (ret.op = "authenticate" /\ ret.name = "none")
    => (/\ ret.value[1].raw.M1 = computeM1(auth)
        /\ exchangeDerive(auth).name = "none"
        /\ auth.K = exchangeDerive(auth).inst.K)

\* C6: authenticate() fails with the protocol error, and stores no M1, on
\* every instance on which no exchange has completed; K is stored by a
\* successful exchange and by nothing else.
C6_AuthenticateNeedsExchange ==
    [][/\ (ret'.op = "authenticate" /\ auth.K = Undefined)
            => (/\ ret'.name = "SRPError"
                /\ ret'.message =
                     "s, A, B, and K must be set before authenticating"
                /\ auth'.M1 = Undefined)
       /\ (auth.K = Undefined /\ auth'.K # Undefined)
            => (ret'.op = "exchange" /\ ret'.name = "none")]_vars

\* authenticate was refused after init and an exchange that failed on u = 0
C6_Witness ==
    /\ ret.op = "authenticate"
    /\ ret.name = "SRPError"
    /\ auth.u = Defined(0)
    /\ auth.K = Undefined

\* C7: verifyServer(M2) fails with the protocol error, for every M2, on every
\* instance on which authenticate() has not succeeded; M1 is stored by a
\* successful authenticate and by nothing else.
C7_VerifyServerNeedsAuthenticate ==
    [][/\ (ret'.op = "verifyServer" /\ auth.M1 = Undefined)
            => (/\ ret'.name = "SRPError"
                /\ ret'.message =
                     "A, M1, and K must be set before verifying the server")
       /\ (auth.M1 = Undefined /\ auth'.M1 # Undefined)
            => (ret'.op = "authenticate" /\ ret'.name = "none")]_vars

\* verifyServer was refused after a successful exchange, authenticate skipped
C7_Witness ==
    /\ ret.op = "verifyServer"
    /\ ret.name = "SRPError"
    /\ auth.K # Undefined
    /\ auth.M1 = Undefined

\* C8: exchange fails with a security violation whenever u = H(A, B) is zero,
\* and then derives no S and no K.
C8_ZeroURejected ==
    [][(ret'.op = "exchange" /\ ~exchangeThrows(auth)
            /\ auth'.B[1] # 0 /\ computeU(auth') = 0)
        => (/\ ret'.name = "SRPSecurityViolation"
            /\ auth'.S = auth.S
            /\ auth'.K = auth.K)]_vars

\* C9: the x exchange recomputes from the salt it was given equals the x
\* ClientSetup.init computes for the same salt bytes.
C9_SameX ==
    (ret.op = "exchange" /\ ret.name = "none" /\ ~ret.args[2].hex)
    => computeX(auth)
         = setupComputeX(ClientSetupNew(Username, Password, ret.args[2].v))

\* C10: the verifier Client Setup hands over, raw or encoded, decodes in the
\* ServerSetup constructor to the integer v = g^x mod N Client Setup computed.
C10_VerifierDecodes ==
    (server # Undefined /\ setup # Undefined /\ setup[1].v # Undefined)
    => server[1].v = setup[1].v[1]

\* the lower-case two-characters-per-byte hex string of a raw input
HexOf(input) == IF input.hex THEN input ELSE HexString(toHex(input.v))

\* C11: for B and s of exchange and M2 of verifyServer, passing the hex
\* encoding of a byte sequence has the same outcome (stored values, success
\* or error) as passing the byte sequence itself.
C11_HexSameAsBytes ==
    [][/\ ret'.op = "exchange"
            => \A hexB \in BOOLEAN, hexS \in BOOLEAN :
                 exchange(auth,
                          IF hexB THEN HexOf(ret'.args[1]) ELSE ret'.args[1],
                          IF hexS THEN HexOf(ret'.args[2]) ELSE ret'.args[2])
                   = exchange(auth, ret'.args[1], ret'.args[2])
       /\ ret'.op = "verifyServer"
            => verifyServer(auth, HexOf(ret'.args[1]))
                 = verifyServer(auth, ret'.args[1])]_vars

\* a received salt that is empty or numerically zero
SaltEmptyOrZero(input) == \A i \in 1..Len(input.v) : input.v[i] = 0

\* C12: ServerSetup.verify() fails with a security violation whenever the
\* received salt is empty or numerically zero, supplied as bytes or as a hex
\* string (I not empty, v present), and then returns no storage record.
C12_BadSaltIsSecurityViolation ==
    (/\ handed # Undefined
     /\ handed[1].I # <<>>
     /\ handed[1].v.v # <<>>
     /\ SaltEmptyOrZero(handed[1].s))
    => (/\ serverRet.op = "new" => serverRet.name = "none"
        /\ serverRet.op = "verify"
             => (/\ serverRet.name = "SRPSecurityViolation"
                 /\ serverRet.value = <<>>))

RecordConfig(record) ==
    [I |-> record.username, s |-> HexString(record.salt),
     v |-> HexString(record.verifier)]

\* C15: on success verify() returns the received triple re-encoded and
\* unchanged: username is I, salt is the hex of exactly the salt bytes
\* received, verifier is the hex of the received verifier value; and a new
\* ServerSetup built from the record's salt and verifier returns the same
\* record.
C15_RecordKeepsTriple ==
    (serverRet.op = "verify" /\ serverRet.name = "none")
    => LET record == serverRet.value[1]
           again == RecordConfig(record)
       IN  /\ record.username = handed[1].I
           /\ record.salt = toHex(InputBytes(handed[1].s))
           /\ record.verifier
                = toHex(IntegerToBytes(InputValue(handed[1].v)))
           /\ ~ServerSetupNewThrows(again)
           /\ verify(ServerSetupNew(again)).value = <<record>>

\* C16: toBigInt(toUint8Array(n)) = n for every non-negative integer n,
\* whatever the number of digits of its hexadecimal representation.
C16_IntegerRoundTrip ==
    (arg.type = "bigint" /\ out.op = "toBigInt")
    => (out.name = "none" /\ out.value[1] = arg.v)

\* C17: toUint8Array(toBigInt(x)) = x for every non-empty byte sequence x
\* whose first byte is not zero.
C17_BytesRoundTrip ==
    (/\ arg.type = "Uint8Array"
     /\ out.op = "toUint8Array"
     /\ arg.v # <<>>
     /\ arg.v[1] # 0)
    => out.value[1] = arg.v

\* an independent ClientSetup built from the config of the one in the state
SecondSetup ==
    ClientSetupNew(TextDecode(setup[1].I), TextDecode(setup[1].p), setup[1].s)

RECURSIVE ModExp(_, _, _)
\* g^x mod N for 0 <= g < N: g^(2y) = (g^y)^2 and g^(2y+1) = (g^y)^2 * g
ModExp(g, x, N) ==
    IF x = 0 THEN 1 % N
    ELSE LET half == ModExp(g, x \div 2, N)
             square == (half * half) % N
         IN  IF x % 2 = 0 THEN square ELSE (square * g) % N

\* C19: ClientSetup.init() returns v = g^x mod N, x the integer value of
\* H(s, H(I, ':', p)), raw and hex-encoded, with the plaintext identity equal
\* to the constructor's username.
C19_ReturnsVerifier ==
    (setupRet.op = "init" /\ setupRet.name = "none")
    => LET inner == hash(Algorithm, <<setup[1].I, Colon, setup[1].p>>)
           x == DigitsValue(toHex(hash(Algorithm, <<setup[1].s, inner>>)), 0)
           v == ModExp(GroupG, x, GroupN)
           result == setupRet.value[1]
       IN  /\ setup[1].v = Defined(v)
           /\ DigitsValue(toHex(result.raw.v), 0) = v
           /\ DigitsValue(result.encoded.v, 0) = v
           /\ TextEncode(result.I) = setup[1].I

\* C20: after a successful exchange authenticate() returns
\* M1 = H(H(N) XOR H(g), I, s, A, B, K), the inputs concatenated in that
\* order, s, A and B the minimal big-endian encodings of the stored integers;
\* encoded M1 is the hex of raw M1.
C20_ClientProof ==
    (ret.op = "authenticate" /\ ret.name = "none")
    => LET HN == hash(Algorithm, <<IntegerToBytes(GroupN)>>)
           Hg == hash(Algorithm, <<IntegerToBytes(GroupG)>>)
           HX == [i \in 1..Len(HN) |-> BitXor(HN[i], Hg[i])]
           M1 == hash(Algorithm,
                      <<HX, TextEncode(Username), IntegerToBytes(auth.s[1]),
                        IntegerToBytes(auth.A[1]), IntegerToBytes(auth.B[1]),
                        auth.K[1]>>)
       IN  /\ Len(HN) = Len(Hg)
           /\ ret.value[1].raw.M1 = M1
           /\ auth.M1 = Defined(M1)
           /\ ret.value[1].encoded.M1 = toHex(ret.value[1].raw.M1)

\* C21: hash(algorithm, inputs) fails with the protocol error and returns no
\* digest for every algorithm value outside the enumerated set, and succeeds
\* on every input sequence for every algorithm in the set.
C21_UnsupportedAlgorithm ==
    out.op = "hash"
    => IF arg.v.algorithm \in {"SHA-256", "SHA-384", "SHA-512", "SHA3-256",
                               "SHA3-384", "SHA3-512"}
       THEN out.name = "none" /\ Len(out.value) = 1
       ELSE out.name = "SRPError" /\ out.value = <<>>

\* hash was called with an algorithm the enumeration does not list
C21_Witness ==
    /\ out.op = "hash"
    /\ arg.v.algorithm = "MD5"
    /\ arg.v.input = <<BufferInput(<<1, 2>>), StringInput(<<97>>)>>
    /\ out.name = "SRPError"

\* C22: the session secret S exchange stores is a canonical residue:
\* 0 <= S < N and S = ((B - k*g^x) mod N)^(a + u*x) mod N with the
\* non-negative mod, also when B - k*(g^x mod N) is negative.
C22_CanonicalSecret ==
    (ret.op = "exchange" /\ ret.name = "none")
    => LET x == computeX(auth)
           base == (auth.B[1] - computeK * ModExp(GroupG, x, GroupN)) % GroupN
       IN  /\ 0 <= auth.S[1]
           /\ auth.S[1] < GroupN
           /\ auth.S[1] = ModExp(base, auth.a[1] + auth.u[1] * x, GroupN)

\* C23: after a successful init(), for every a the entropy source can return
\* and every salt, exchange(B, s) fails only when B is congruent to 0 mod N
\* or u = 0, never with an out-of-order protocol error; otherwise it stores
\* K and a following authenticate() succeeds.
C23_ExchangeAfterInit ==
    [][(/\ ret'.op = "exchange"
        /\ auth.a # Undefined
        /\ InputValue(ret'.args[1]) % GroupN # 0
        /\ computeU(auth') # 0)
        => (/\ ret'.name = "none"
            /\ auth'.K # Undefined
            /\ authenticate(auth').name = "none")]_vars

\* C24: the error 'X has not been computed yet' is unreachable through
\* init(): for every username, password and salt, and every digest the hash
\* returns for x, a zero digest included, init() completes and returns a
\* verifier.
C24_SetupInitCompletes ==
    setupRet.op = "init"
    => (/\ setupRet.name = "none"
        /\ setupRet.value[1].raw.v # <<>>
        /\ setup[1].v # Undefined)

\* C25: in every reachable state in which a session key K is stored, the
\* stored B is not congruent to 0 mod N, the stored u is H(A, B) and not 0,
\* and K = H(S) for the S derived from the stored a, B, u and s: no K of an
\* earlier exchange stays beside a newly stored B or s.
C25_KeyOfStoredOperands ==
    auth.K # Undefined
    => (/\ auth.B[1] % GroupN # 0
        /\ auth.u[1] # 0
        /\ auth.u[1] = computeU(auth)
        /\ ~computeSThrows(auth)
        /\ ~computeXThrows(auth)
        /\ auth.S = Defined(computeS(auth))
        /\ auth.K = Defined(hash(Algorithm, <<toUint8Array(auth.S[1])>>)))

\* C26: init() stores a and A = g^a mod N with 0 < A < N and returns that A,
\* as raw bytes and as their hex, with the plaintext identity.
C26_InitReturnsA ==
    ret.op = "init"
    => (/\ ret.name = "none"
        /\ auth.A = Defined(ModExp(GroupG, auth.a[1], GroupN))
        /\ 0 < auth.A[1]
        /\ auth.A[1] < GroupN
        /\ DigitsValue(toHex(ret.value[1].raw.A), 0) = auth.A[1]
        /\ ret.value[1].encoded.A = toHex(ret.value[1].raw.A)
        /\ ret.value[1].I = Username)

\* C27: verifyServer(M2) changes no stored value of the instance, whether it
\* succeeds or fails, and authenticate() changes only M1.
C27_Frame ==
    [][/\ ret'.op = "verifyServer" => auth' = auth
       /\ ret'.op = "authenticate"
            => [auth' EXCEPT !.M1 = auth.M1] = auth]_vars

\* verifyServer rejected an M2 on an instance that holds K and M1
C27_Witness ==
    /\ ret.op = "verifyServer"
    /\ ret.name = "SRPSecurityViolation"
    /\ auth.K # Undefined
    /\ auth.M1 # Undefined

\* C28: modPow(base, exponent, modulus) returns base^exponent mod modulus, a
\* value in 0..modulus-1, for every base >= 0, exponent >= 0 and
\* modulus >= 1 (exponent = 0 giving 1 mod modulus), and returns no value
\* when modulus = 0.
C28_ModPow ==
    out.op = "powMod"
    => IF arg.v.p = 0 THEN out.name # "none"
       ELSE /\ out.name = "none"
            /\ out.value[1] = ModExp(arg.v.base, arg.v.exp, arg.v.p)
            /\ 0 <= out.value[1]
            /\ out.value[1] < arg.v.p

RECURSIVE BigEndianValue(_)
\* the big-endian unsigned value of a byte sequence, zero for the empty one
BigEndianValue(bytes) ==
    IF bytes = <<>> THEN 0
    ELSE 256 * BigEndianValue(SubSeq(bytes, 1, Len(bytes) - 1))
         + bytes[Len(bytes)]

\* C29: toBigInt maps the empty byte sequence to zero and every other byte
\* sequence to its big-endian unsigned value, and fails on none.
C29_BytesToInteger ==
    (arg.type = "Uint8Array" /\ out.op = "toBigInt")
    => (out.name = "none" /\ out.value[1] = BigEndianValue(arg.v))

\* C30: doesMatch(a, b) returns false whenever the lengths of a and b differ
\* and otherwise true exactly when a[i] = b[i] for every index i; it is
\* symmetric in a and b.
C30_DoesMatch ==
    out.op = "doesMatch"
    => LET a == arg.v[1]
           b == arg.v[2]
       IN  /\ out.name = "none"
           /\ Len(a) # Len(b) => out.value[1] = FALSE
           /\ Len(a) = Len(b)
                => out.value[1] = (\A i \in 1..Len(a) : a[i] = b[i])
           /\ doesMatch(b, a) = out.value[1]

\* doesMatch told apart two arrays of one length that differ in the last byte
C30_Witness ==
    /\ out.op = "doesMatch"
    /\ arg.v = <<<<1, 35>>, <<1, 0>>>>
    /\ out.value = <<FALSE>>

\* C31: the salt of a ClientSetup instance is fixed at construction: init()
\* never changes s, I or p, and every further init() on the instance has the
\* outcome of the one before, same salt and same verifier, also when the
\* salt was generated by the constructor.
C31_SaltFixedAtConstruction ==
    [][/\ setup # Undefined
            => (/\ setup' # Undefined
                /\ setup'[1].s = setup[1].s
                /\ setup'[1].I = setup[1].I
                /\ setup'[1].p = setup[1].p)
       /\ (setupRet.op = "init" /\ setupRet'.op = "init")
            => setupRet' = setupRet]_vars

\* init() returned the salt the constructor generated
C31_Witness ==
    /\ setupRet.op = "init"
    /\ setupRet.name = "none"
    /\ setup[1].s = <<9, 200>>
    /\ setupRet.value[1].raw.s = <<9, 200>>
    /\ setupRet.value[1].encoded.s = <<0, 9, 12, 8>>

\* C32: powMod terminates for every exponent >= 0, and every exponent
\* computeS passes to it, a + u*x, is non-negative, so exchange never hangs
\* in the exponentiation.
C32_PowModTerminates ==
    /\ [](arg.v.caller = "computeS" => arg.v.exp >= 0)
    /\ (arg.v.exp >= 0) ~> (out.op = "powMod")

\* the powMod call of computeS returned for an exponent of more than a byte
C32_Witness ==
    /\ out.op = "powMod"
    /\ out.name = "none"
    /\ arg.v.caller = "computeS"
    /\ arg.v.exp > 255

====
